---- MODULE Spec2Model ----
(***************************************************************************)
(* NationalIdentifierFormatValidator (build/lib/main.py): format           *)
(* validation of PAN, National Insurance, SSN, Aadhaar, NPWP, CPF and CNPJ *)
(* identifiers.                                                            *)
(*                                                                         *)
(* A Python str is a sequence of one-character strings.  The fixed texts   *)
(* the validator stores in _message_ are kept whole, as a one-element      *)
(* sequence, since only their identity matters.  A Python int of unbounded *)
(* size (int(cpf_number), int(aadhaar_number)) is its sequence of decimal  *)
(* digits without leading zeros.  The characters considered are ASCII      *)
(* letters and digits, the four separators, TAB, '#', and SUPERSCRIPT TWO   *)
(* (U+00B2), which stands for the characters str.isdigit() accepts and      *)
(* int() rejects.                                                          *)
(***************************************************************************)
EXTENDS Integers, Sequences, FiniteSets, TLC

VARIABLES
    _message_,      \* NationalIdentifierFormatValidator._message_
    _status_,       \* NationalIdentifierFormatValidator._status_
    _is_valid_,     \* NationalIdentifierFormatValidator._is_valid_
    op,             \* the operation of the last completed call ("none" before any)
    arg,            \* the identifier string the last call was given
    name_arg,       \* the name the last call was given (<<>> when it takes none)
    result,         \* what the last call returned or raised
    prev,           \* what the call before the last returned or raised (NoCall if none)
    threads         \* the concurrent callers of one shared instance

vars == <<_message_, _status_, _is_valid_, op, arg, name_arg, result, prev, threads>>

----------------------------------------------------------------------------
(* Characters and the str methods the validators use.                      *)

UPPERCASE == <<"A","B","C","D","E","F","G","H","I","J","K","L","M",
               "N","O","P","Q","R","S","T","U","V","W","X","Y","Z">>
LOWERCASE == <<"a","b","c","d","e","f","g","h","i","j","k","l","m",
               "n","o","p","q","r","s","t","u","v","w","x","y","z">>
DIGITS == <<"0","1","2","3","4","5","6","7","8","9">>

Range(s) == {s[i] : i \in DOMAIN s}
Upper_ == Range(UPPERCASE)
Lower_ == Range(LOWERCASE)
Digit_ == Range(DIGITS)
\* a character for which isdigit(), isnumeric() and isalnum() are True and that
\* int() does not parse
SUPERSCRIPT_TWO == "²"

\* the characters of " -./" that every validator deletes with str.translate
SEPARATORS == {" ", "-", ".", "/"}
\* what str.strip() removes at both ends
WHITESPACE == {" ", "\t"}

IndexOf(c, s) == CHOOSE i \in DOMAIN s : s[i] = c

\* str.upper() of one character
upper_char(c) == IF c \in Lower_ THEN UPPERCASE[IndexOf(c, LOWERCASE)] ELSE c
\* str.upper()
upper(s) == [i \in DOMAIN s |-> upper_char(s[i])]

\* s.translate({ord(ch): '' for ch in " -./"})
translate(s) == SelectSeq(s, LAMBDA c : c \notin SEPARATORS)

RECURSIVE lstrip(_)
lstrip(s) == IF s # <<>> /\ Head(s) \in WHITESPACE THEN lstrip(Tail(s)) ELSE s
RECURSIVE rstrip(_)
rstrip(s) == IF s # <<>> /\ s[Len(s)] \in WHITESPACE
             THEN rstrip(SubSeq(s, 1, Len(s) - 1)) ELSE s
\* str.strip()
strip(s) == rstrip(lstrip(s))

Min(a, b) == IF a < b THEN a ELSE b
Max(a, b) == IF a > b THEN a ELSE b
\* s[a:b] for 0 <= a, 0 <= b: never raises, clips to the string
Slice(s, a, b) == SubSeq(s, a + 1, Min(b, Len(s)))
\* s[a:]
SliceFrom(s, a) == SubSeq(s, a + 1, Len(s))
\* s[-k:] and s[:-k] for k > 0
SliceLast(s, k) == SubSeq(s, Max(Len(s) - k, 0) + 1, Len(s))
SliceButLast(s, k) == SubSeq(s, 1, Len(s) - k)

\* str.isalnum(), str.isdigit(), str.isnumeric(): False on the empty string
isalnum(s) ==
    /\ s # <<>>
    /\ \A i \in DOMAIN s : s[i] \in Upper_ \cup Lower_ \cup Digit_ \cup {SUPERSCRIPT_TWO}
isdigit(s) == s # <<>> /\ \A i \in DOMAIN s : s[i] \in Digit_ \cup {SUPERSCRIPT_TWO}
isnumeric(s) == isdigit(s)
\* whether int(s) parses a string for which isalnum() is True: otherwise it
\* raises ValueError
int_parses(s) == s # <<>> /\ \A i \in DOMAIN s : s[i] \in Digit_

\* int(c) of one decimal digit character
digit_value(c) == IndexOf(c, DIGITS) - 1
\* '%d' of a one-digit value; other values cannot be written as one character
RECURSIVE format_d(_)
format_d(n) == IF n < 0 THEN <<"-">> \o format_d(-n)
               ELSE IF n < 10 THEN <<DIGITS[n + 1]>>
               ELSE format_d(n \div 10) \o <<DIGITS[(n % 10) + 1]>>

\* int(s) of a string of at most 9 decimal digits
RECURSIVE int_small(_)
int_small(s) == IF s = <<>> THEN 0
                ELSE 10 * int_small(SubSeq(s, 1, Len(s) - 1)) + digit_value(s[Len(s)])

\* int(s) of a digit string of any length: the digits without leading zeros
\* (<<>> is zero), and str() of it
RECURSIVE int_big(_)
int_big(s) == IF s # <<>> /\ Head(s) = "0" THEN int_big(Tail(s)) ELSE s
str_big(n) == IF n = <<>> THEN <<"0">> ELSE n

\* str.split(" "): the pieces between single spaces, empty pieces kept
RECURSIVE split_space(_)
split_space(s) ==
    IF \A i \in DOMAIN s : s[i] # " " THEN <<s>>
    ELSE LET k == CHOOSE i \in DOMAIN s : s[i] = " " /\ \A j \in 1..(i - 1) : s[j] # " "
         IN <<SubSeq(s, 1, k - 1)>> \o split_space(SubSeq(s, k + 1, Len(s)))

----------------------------------------------------------------------------
(* Values a call produces.                                                 *)

\* ValidationResponse(message, status, is_valid)
ValidationResponse(m, s, v) ==
    [kind |-> "ValidationResponse", message |-> m, status |-> s, is_valid |-> v]
\* a returned str, a returned None, a raised exception
Str(s) == [kind |-> "str", message |-> s]
None == [kind |-> "None"]
Raise(e) == [kind |-> "raise", error |-> e]
NoCall == [kind |-> "nocall"]

\* the instance's three scratch fields as one value
Fields(m, s, v) == [_message_ |-> m, _status_ |-> s, _is_valid_ |-> v]
\* __init__
NewInstance == Fields(<<>>, 0, FALSE)
_PAN_length_ == 10
_valid_fourth_char_PAN_ == {"A", "B", "C", "F", "G", "H", "L", "J", "P", "T"}

----------------------------------------------------------------------------
(* PAN (India).                                                            *)

\* regex_pattern "[A-Z]{5}[0-9]{4}[A-Z]{1}" matching s from offset i
PAN_pattern_at(s, i) ==
    /\ i + 10 <= Len(s)
    /\ \A k \in 1..5 : s[i + k] \in Upper_
    /\ \A k \in 6..9 : s[i + k] \in Digit_
    /\ s[i + 10] \in Upper_
\* re.search(p, pan_number): a match starting anywhere
re_search_PAN(s) == \E i \in 0..Len(s) : PAN_pattern_at(s, i)

\* the texts validate_PAN and validate_PAN_with_name store in _message_
MSG_LENGTH == <<"A Valid Indian PAN number is 10 characters wide">>
MSG_FOURTH == <<"Invalid Fourth Character detected in PAN">>
MSG_DIGITS == <<"Invalid digit pattern detected in PAN">>
MSG_PATTERN == <<"Invalid pattern detected in PAN">>
MSG_SPECIAL == <<"Input PAN doesn't conform to Indian PAN standards. Contains special chars">>
MSG_NO_NAME == <<"Please provide registered name of of the entity">>
MSG_NO_LAST_NAME == <<"Please provide last name of of the entity">>
MSG_LAST_NAME == <<"Mismatch in last name and PAN detected for individual entity">>
MSG_FIRST_NAME == <<"Mismatch in first name and PAN detected for non-individual entity">>

\* pan_number.translate({ord(ch): '' for ch in " -./"}).strip().upper()
normalize_PAN(pan_number) == upper(strip(translate(pan_number)))

\* validate_PAN's branches with the fourth-character test moved before the
\* digit-block test
validate_PAN_branch_fourth_first(self, pan_number) ==
    IF Len(pan_number) # _PAN_length_
    THEN [raised |-> FALSE, self |-> Fields(MSG_LENGTH, -1, FALSE)]
    ELSE IF isalnum(pan_number)
    THEN IF re_search_PAN(pan_number)
         THEN IF pan_number[4] \notin _valid_fourth_char_PAN_
              THEN [raised |-> FALSE, self |-> Fields(MSG_FOURTH, -2, FALSE)]
              ELSE IF 1 <= int_small(Slice(pan_number, 5, 9))
                      /\ int_small(Slice(pan_number, 5, 9)) <= 9999
              THEN [raised |-> FALSE, self |-> Fields(pan_number, 0, TRUE)]
              ELSE [raised |-> FALSE, self |-> Fields(MSG_DIGITS, -3, FALSE)]
         ELSE [raised |-> FALSE, self |-> Fields(MSG_PATTERN, -4, FALSE)]
    ELSE [raised |-> FALSE, self |-> Fields(MSG_SPECIAL, -5, FALSE)]

\* validate_PAN, lines 59-86: what the branch taken assigns to the three fields;
\* "raise" when int() is given something that is no number
validate_PAN_branch(self, pan_number) ==
    IF Len(pan_number) # _PAN_length_
    THEN [raised |-> FALSE, self |-> Fields(MSG_LENGTH, -1, FALSE)]
    ELSE IF isalnum(pan_number)
    THEN IF re_search_PAN(pan_number)
         THEN IF ~int_parses(Slice(pan_number, 5, 9))
              THEN [raised |-> TRUE, self |-> self]
              ELSE IF 1 <= int_small(Slice(pan_number, 5, 9))
                      /\ int_small(Slice(pan_number, 5, 9)) <= 9999
              THEN IF pan_number[4] \in _valid_fourth_char_PAN_
                   THEN [raised |-> FALSE, self |-> Fields(pan_number, 0, TRUE)]
                   ELSE [raised |-> FALSE, self |-> Fields(MSG_FOURTH, -2, FALSE)]
              ELSE [raised |-> FALSE, self |-> Fields(MSG_DIGITS, -3, FALSE)]
         ELSE [raised |-> FALSE, self |-> Fields(MSG_PATTERN, -4, FALSE)]
    ELSE [raised |-> FALSE, self |-> Fields(MSG_SPECIAL, -5, FALSE)]

\* validate_PAN: the instance after the call and what the call returns
validate_PAN(self, pan_number) ==
    LET b == validate_PAN_branch(self, normalize_PAN(pan_number))
    IN  IF b.raised
        THEN [self |-> b.self, ret |-> Raise("ValueError")]
        ELSE [self |-> b.self,
              ret |-> ValidationResponse(b.self._message_, b.self._status_,
                                         b.self._is_valid_)]

\* validate_PAN_lite: the conjunction is evaluated left to right and stops at the
\* first false operand; int(pan_number[5:9]) is evaluated before the pattern
validate_PAN_lite(pan_number0) ==
    LET pan_number == normalize_PAN(pan_number0)
    IN  IF Len(pan_number) # _PAN_length_ THEN None
        ELSE IF ~isalnum(pan_number) THEN None
        ELSE IF pan_number[4] \notin _valid_fourth_char_PAN_ THEN None
        ELSE IF ~int_parses(Slice(pan_number, 5, 9)) THEN Raise("ValueError")
        ELSE IF ~(1 <= int_small(Slice(pan_number, 5, 9))
                  /\ int_small(Slice(pan_number, 5, 9)) <= 9999) THEN None
        ELSE IF ~re_search_PAN(pan_number) THEN None
        ELSE Str(pan_number)

\* the name check with an individual's PAN compared to the first token too
name_check_first_token(pan_number, name) ==
    LET nm == strip(name)
        tokens == split_space(nm)
        first == tokens[1]
    IN  IF Len(nm) = 0
        THEN [kind |-> "fail", message |-> MSG_NO_NAME, status |-> -1]
        ELSE IF Len(pan_number) < 4 THEN [kind |-> "raise"]
        ELSE IF pan_number[4] = "P"
        THEN IF Len(tokens) < 2
             THEN [kind |-> "fail", message |-> MSG_NO_LAST_NAME, status |-> -2]
             ELSE IF first = <<>> \/ Len(pan_number) < 5 THEN [kind |-> "raise"]
             ELSE IF upper_char(first[1]) # pan_number[5]
             THEN [kind |-> "fail", message |-> MSG_LAST_NAME, status |-> -3]
             ELSE [kind |-> "pass"]
        ELSE IF first = <<>> \/ Len(pan_number) < 5 THEN [kind |-> "raise"]
        ELSE IF upper_char(first[1]) # pan_number[5]
        THEN [kind |-> "fail", message |-> MSG_FIRST_NAME, status |-> -4]
        ELSE [kind |-> "pass"]

\* validate_PAN_with_name, lines 117-133: "pass" when no branch assigns, "fail"
\* with the message and status assigned, "raise" on an index out of range
name_check(pan_number, name) ==
    LET nm == strip(name)
        tokens == split_space(nm)
        last == tokens[Len(tokens)]
        first == tokens[1]
    IN  IF Len(nm) = 0
        THEN [kind |-> "fail", message |-> MSG_NO_NAME, status |-> -1]
        ELSE IF Len(pan_number) < 4 THEN [kind |-> "raise"]
        ELSE IF pan_number[4] = "P"
        THEN IF Len(tokens) < 2
             THEN [kind |-> "fail", message |-> MSG_NO_LAST_NAME, status |-> -2]
             ELSE IF last = <<>> \/ Len(pan_number) < 5 THEN [kind |-> "raise"]
             ELSE IF upper_char(last[1]) # pan_number[5]
             THEN [kind |-> "fail", message |-> MSG_LAST_NAME, status |-> -3]
             ELSE [kind |-> "pass"]
        ELSE IF first = <<>> \/ Len(pan_number) < 5 THEN [kind |-> "raise"]
        ELSE IF upper_char(first[1]) # pan_number[5]
        THEN [kind |-> "fail", message |-> MSG_FIRST_NAME, status |-> -4]
        ELSE [kind |-> "pass"]

\* validate_PAN_with_name without line 116, self._is_valid_ = True
validate_PAN_with_name_no_reset(self, pan_number0, name) ==
    LET pan_number == normalize_PAN(pan_number0)
        c == name_check(pan_number, name)
        self2 == IF c.kind = "fail" THEN Fields(c.message, c.status, FALSE) ELSE self
    IN  IF c.kind = "raise"
        THEN [self |-> self, ret |-> Raise("IndexError")]
        ELSE IF self2._is_valid_ = TRUE
        THEN validate_PAN(self2, pan_number)
        ELSE [self |-> self2,
              ret |-> ValidationResponse(self2._message_, self2._status_,
                                         self2._is_valid_)]

\* validate_PAN_with_name
validate_PAN_with_name(self, pan_number0, name) ==
    LET pan_number == normalize_PAN(pan_number0)
        self1 == [self EXCEPT !._is_valid_ = TRUE]
        c == name_check(pan_number, name)
        self2 == IF c.kind = "fail" THEN Fields(c.message, c.status, FALSE) ELSE self1
    IN  IF c.kind = "raise"
        THEN [self |-> self1, ret |-> Raise("IndexError")]
        ELSE IF self2._is_valid_ = TRUE
        THEN validate_PAN(self2, pan_number)
        ELSE [self |-> self2,
              ret |-> ValidationResponse(self2._message_, self2._status_,
                                         self2._is_valid_)]

\* validate_PAN_with_name_lite: the PAN is not upper-cased, the name is
validate_PAN_with_name_lite(pan_number0, name0) ==
    LET pan_number == strip(translate(pan_number0))
        name == upper(strip(name0))
        tokens == split_space(name)
        last == tokens[Len(tokens)]
        first == tokens[1]
    IN  IF ~(Len(pan_number) > 0 /\ Len(name) > 0) THEN None
        ELSE IF Len(pan_number) < 4 THEN Raise("IndexError")
        ELSE IF pan_number[4] = "P"
        THEN IF last = <<>> \/ Len(pan_number) < 5 THEN Raise("IndexError")
             ELSE IF last[1] = pan_number[5] THEN validate_PAN_lite(pan_number)
             ELSE None
        ELSE IF first = <<>> \/ Len(pan_number) < 5 THEN Raise("IndexError")
        ELSE IF first[1] = pan_number[5] THEN validate_PAN_lite(pan_number)
        ELSE None

----------------------------------------------------------------------------
(* National Insurance number (UK) and SSN (USA).                           *)

unallocated_begin_sequence ==
    {<<"B","G">>, <<"G","B">>, <<"N","K">>, <<"K","N">>, <<"T","N">>, <<"N","T">>,
     <<"Z","Z">>}
invalid_first_char == {"D", "F", "I", "Q", "U", "V"}
invalid_second_char == {"D", "F", "I", "O", "Q", "U", "V"}
allowed_last_char == {"A", "B", "C", "D", " "}

\* validate_National_Insurance_Number: the disjunction is evaluated left to right
\* and stops at the first true operand, so no index is read below length 8
validate_National_Insurance_Number(national_insurance_number0) ==
    LET national_insurance_number == strip(translate(national_insurance_number0))
        n == Len(national_insurance_number)
        last_char == IF n = 9 THEN national_insurance_number[n] ELSE " "
    IN  IF \/ n < 8
           \/ Slice(national_insurance_number, 0, 2) \in unallocated_begin_sequence
           \/ national_insurance_number[1] \in invalid_first_char
           \/ national_insurance_number[2] \in invalid_second_char
           \/ isnumeric(Slice(national_insurance_number, 3, 8)) = FALSE
           \/ last_char \notin allowed_last_char
        THEN None
        ELSE Str(national_insurance_number)

\* re.match of "(?!000|666)[0-8][0-9]{2}(?!00)[0-9]{2}(?!0000)[0-9]{4}": the
\* pattern is matched at the start of the string and need not reach its end
re_match_SSN(s) ==
    /\ Len(s) >= 9
    /\ \A k \in 1..9 : s[k] \in Digit_
    /\ Slice(s, 0, 3) \notin {<<"0","0","0">>, <<"6","6","6">>}
    /\ s[1] # "9"
    /\ Slice(s, 3, 5) # <<"0","0">>
    /\ Slice(s, 5, 9) # <<"0","0","0","0">>

\* validate_SSN
validate_SSN(social_security_number0) ==
    LET social_security_number == strip(translate(social_security_number0))
    IN  IF re_match_SSN(social_security_number)
        THEN Str(Slice(social_security_number, 0, 3) \o <<"-">>
                 \o Slice(social_security_number, 3, 5) \o <<"-">>
                 \o Slice(social_security_number, 5, 9))
        ELSE None

----------------------------------------------------------------------------
(* Aadhaar (India) and NPWP (Indonesia): the check-digit algorithms of     *)
(* python-stdnum that main.py imports.                                     *)

\* stdnum.verhoeff._multiplication_table and _permutation_table (0-based rows)
verhoeff_multiplication_table ==
    << <<0,1,2,3,4,5,6,7,8,9>>, <<1,2,3,4,0,6,7,8,9,5>>, <<2,3,4,0,1,7,8,9,5,6>>,
       <<3,4,0,1,2,8,9,5,6,7>>, <<4,0,1,2,3,9,5,6,7,8>>, <<5,9,8,7,6,0,4,3,2,1>>,
       <<6,5,9,8,7,1,0,4,3,2>>, <<7,6,5,9,8,2,1,0,4,3>>, <<8,7,6,5,9,3,2,1,0,4>>,
       <<9,8,7,6,5,4,3,2,1,0>> >>
verhoeff_permutation_table ==
    << <<0,1,2,3,4,5,6,7,8,9>>, <<1,5,7,6,2,8,3,0,9,4>>, <<5,8,0,3,7,9,6,1,4,2>>,
       <<8,9,1,6,0,4,3,5,2,7>>, <<9,4,5,3,1,2,6,8,7,0>>, <<4,2,8,6,5,7,3,9,0,1>>,
       <<2,7,9,3,8,0,6,4,1,5>>, <<7,0,4,6,9,1,3,2,5,8>> >>

\* reversed(s)
reversed(s) == [i \in DOMAIN s |-> s[Len(s) + 1 - i]]

\* stdnum.verhoeff.checksum: the loop over the reversed digits, up to step k
RECURSIVE verhoeff_check(_, _)
verhoeff_check(rev, k) ==
    IF k = 0 THEN 0
    ELSE verhoeff_multiplication_table[verhoeff_check(rev, k - 1) + 1]
            [verhoeff_permutation_table[((k - 1) % 8) + 1][digit_value(rev[k]) + 1] + 1]
\* stdnum.verhoeff.is_valid(number) of an int given by its digits
verhoeff_is_valid(number) ==
    /\ number # <<>>
    /\ verhoeff_check(reversed(str_big(number)), Len(str_big(number))) = 0

\* validate_Aadhaar
validate_Aadhaar(aadhaar_number0) ==
    LET aadhaar_number == strip(translate(aadhaar_number0))
    IN  IF Len(aadhaar_number) # 12 \/ isnumeric(aadhaar_number) # TRUE THEN None
        ELSE IF ~int_parses(<<aadhaar_number[1]>>) THEN Raise("ValueError")
        ELSE IF digit_value(aadhaar_number[1]) < 2 THEN None
        ELSE IF ~int_parses(aadhaar_number) THEN Raise("ValueError")
        ELSE IF verhoeff_is_valid(int_big(aadhaar_number)) # TRUE THEN None
        ELSE Str(Slice(aadhaar_number, 0, 4) \o <<" ">> \o Slice(aadhaar_number, 4, 8)
                 \o <<" ">> \o Slice(aadhaar_number, 8, 12))

\* stdnum.luhn.checksum: digits at even offsets of the reversed number are added,
\* those at odd offsets doubled and their two decimal digits added
RECURSIVE luhn_sum(_, _)
luhn_sum(rev, k) ==
    IF k = 0 THEN 0
    ELSE LET d == digit_value(rev[k])
         IN  luhn_sum(rev, k - 1)
             + (IF (k - 1) % 2 = 0 THEN d ELSE ((2 * d) \div 10) + ((2 * d) % 10))
\* stdnum.luhn.is_valid(number) of a string: False when a character is not of
\* the alphabet "0123456789"
luhn_is_valid(number) ==
    /\ number # <<>>
    /\ \A i \in DOMAIN number : number[i] \in Digit_
    /\ luhn_sum(reversed(number), Len(number)) % 10 = 0

\* validate_NPWP
validate_NPWP(npwp_number0) ==
    LET npwp_number == strip(translate(npwp_number0))
    IN  IF \/ Len(npwp_number) # 15
           \/ isdigit(npwp_number) # TRUE
           \/ luhn_is_valid(Slice(npwp_number, 0, 9)) # TRUE
        THEN None
        ELSE Str(Slice(npwp_number, 0, 2) \o <<".">> \o Slice(npwp_number, 2, 5)
                 \o <<".">> \o Slice(npwp_number, 5, 8) \o <<".">>
                 \o <<npwp_number[9]>> \o <<"-">> \o Slice(npwp_number, 9, 12)
                 \o <<".">> \o SliceFrom(npwp_number, 12))

----------------------------------------------------------------------------
(* CPF and CNPJ (Brazil).                                                  *)

\* sum(w[i] * int(number[i]) for i in range(k)), i counted from 0
RECURSIVE weighted_sum(_, _, _)
weighted_sum(w, number, k) ==
    IF k = 0 THEN 0
    ELSE weighted_sum(w, number, k - 1) + w[k - 1] * digit_value(number[k])

\* the reduction (11 - total) % 11 % 10 of both check digits; Python's % has
\* the sign of the divisor
check_digit(total) == ((11 - total) % 11) % 10

\* cpf_calc_check_digits
cpf_calc_check_digits(cpf_number) ==
    LET d1 == check_digit(weighted_sum([i \in 0..8 |-> 10 - i], cpf_number, 9))
        d2 == check_digit(weighted_sum([i \in 0..8 |-> 11 - i], cpf_number, 9) + 2 * d1)
    IN  format_d(d1) \o format_d(d2)

\* validate_CPF
validate_CPF(cpf_number0) ==
    LET cpf_number == strip(translate(cpf_number0))
    IN  IF Len(cpf_number) # 11 \/ isdigit(cpf_number) # TRUE THEN None
        ELSE IF ~int_parses(cpf_number) THEN Raise("ValueError")
        ELSE IF \/ int_big(cpf_number) = <<>>
                \/ cpf_calc_check_digits(cpf_number) # SliceLast(cpf_number, 2)
        THEN None
        ELSE Str(Slice(cpf_number, 0, 3) \o <<".">> \o Slice(cpf_number, 3, 6)
                 \o <<".">> \o SliceButLast(SliceFrom(cpf_number, 6), 2) \o <<"-">>
                 \o SliceLast(cpf_number, 2))

\* cnpj_calc_check_digits
cnpj_calc_check_digits(cnpj_number) ==
    LET first12 == Slice(cnpj_number, 0, 12)
        d1 == check_digit(weighted_sum([i \in 0..11 |-> ((3 - i) % 8) + 2], first12,
                                       Len(first12)))
        d2 == check_digit(weighted_sum([i \in 0..11 |-> ((4 - i) % 8) + 2], first12,
                                       Len(first12)) + 2 * d1)
    IN  format_d(d1) \o format_d(d2)

\* validate_CNPJ
validate_CNPJ(cnpj_number0) ==
    LET cnpj_number == strip(translate(cnpj_number0))
    IN  IF Len(cnpj_number) # 14 \/ isdigit(cnpj_number) # TRUE THEN None
        ELSE IF ~int_parses(cnpj_number) THEN Raise("ValueError")
        ELSE IF \/ int_big(cnpj_number) = <<>>
                \/ cnpj_calc_check_digits(cnpj_number) # SliceLast(cnpj_number, 2)
        THEN None
        ELSE Str(Slice(cnpj_number, 0, 2) \o <<".">> \o Slice(cnpj_number, 2, 5)
                 \o <<".">> \o Slice(cnpj_number, 5, 8) \o <<"/">>
                 \o Slice(cnpj_number, 8, 12) \o <<"-">> \o SliceFrom(cnpj_number, 12))

----------------------------------------------------------------------------
(* The inputs the calls are given.                                         *)

\* how many separator characters are inserted at one place of a base string
MaxSep == 1
\* how many characters are appended to a base string
MaxExtra == 1

\* well-formed and near-miss identifiers of every type
Bases ==
    {
     <<"A","B","C","P","M","0","0","0","1","N">>,
     <<"A","H","H","C","M","8","6","3","2","N">>,
     <<"A","B","C","X","M","0","0","0","0","N">>,
     <<"a","b","c","p","m","0","0","0","1","n">>,
     <<"A","B","C","P","M","X","X","X","X","N">>,
     <<"A","A","1","1","2","2","3","3","D">>,
     <<"A","A","1","1","2","2","3","3">>,
     <<"D","A","1","1","2","2","3","3","A">>,
     <<"A","O","1","1","2","2","3","3","A">>,
     <<"B","G","1","1","2","2","3","3","A">>,
     <<"6","2","5","-","4","7","-","3","3","1","6">>,
     <<"0","0","0","-","1","2","-","3","4","5","6">>,
     <<"6","6","6","-","1","2","-","3","4","5","6">>,
     <<"1","2","3","-","0","0","-","4","5","6","7">>,
     <<"1","2","3","-","4","5","-","0","0","0","0">>,
     <<"8","2","8","4"," ","0","2","4","2","-","1","5"," "," ","5","0">>,
     <<"1","2","8","4","0","2","4","2","1","5","5","7">>,
     <<"0","1","3","0","0","0","6","6","6","0","9","1","0","0","0">>,
     <<"3","9","0","5","3","3","4","4","7","0","5">>,
     <<"0","0","0","0","0","0","0","0","0","0","0">>,
     <<"1","6",".","7","2","7",".","2","3","0","/","0","0","0","1","-","9","7">>,
     <<"0","0","0","0","0","0","0","0","0","0","0","0","0","0">>
    }
\* nine-digit CPF bodies: ordinary ones, and ones whose first or second check
\* digit comes out of the reduction as 10 or as 0
CPFBodies ==
    {
     <<"3","9","0","5","3","3","4","4","7">>,
     <<"7","0","4","9","9","9","6","2","2">>,
     <<"7","3","6","6","2","5","8","5","1">>,
     <<"8","2","8","8","3","6","0","7","5">>,
     <<"5","5","4","5","8","8","0","8","1">>
    }
SubstChars == {"P", "X", "M", "m", "0", "9", "#", "\t", SUPERSCRIPT_TWO}
InsertChars == SEPARATORS \cup {"\t"}
TailChars == {"0", "A", " "}

\* the strings of length 1..n over a set of characters
RECURSIVE StringsUpTo(_, _)
StringsUpTo(chars, n) ==
    IF n = 0 THEN {}
    ELSE {<<c>> : c \in chars}
         \cup {t \o <<c>> : t \in StringsUpTo(chars, n - 1), c \in chars}
Repeat(c, n) == [i \in 1..n |-> c]

Prefixes(b) == {SubSeq(b, 1, k) : k \in 0..Len(b)}
Substitutions(b) == {[b EXCEPT ![i] = c] : i \in DOMAIN b, c \in SubstChars}
Insertions(b) ==
    {SubSeq(b, 1, i) \o Repeat(c, n) \o SubSeq(b, i + 1, Len(b)) :
        i \in 0..Len(b), c \in InsertChars, n \in 1..MaxSep}
Extensions(b) == {b \o t : t \in StringsUpTo(TailChars, MaxExtra)}

Inputs ==
    UNION {Prefixes(b) \cup Substitutions(b) \cup Insertions(b) \cup Extensions(b) :
              b \in Bases}
    \cup {b \o <<x, y>> : b \in CPFBodies, x \in Digit_, y \in Digit_}
    \cup StringsUpTo(InsertChars, MaxSep + 1)

Names ==
    {
     <<>>,
     <<" ">>,
     <<"\t">>,
     <<"M">>,
     <<"X">>,
     <<"D"," ","M">>,
     <<"M"," ","D">>,
     <<"d"," ","m">>,
     <<" ","D"," "," ","M"," ">>,
     <<"D"," ","X">>
    }

----------------------------------------------------------------------------
(* One validator instance used by one caller: every call runs to its end.  *)

Self == Fields(_message_, _status_, _is_valid_)
SetSelf(self) ==
    /\ _message_' = self._message_
    /\ _status_' = self._status_
    /\ _is_valid_' = self._is_valid_

\* a call that succeeded, and the formatted identifier it gave
Accepted(r) ==
    \/ r.kind = "str"
    \/ r.kind = "ValidationResponse" /\ r.is_valid
\* the caller may feed the output of the last call back into the same operation, once
CanFeedBack(o) == op = o /\ prev = NoCall /\ Accepted(result)

\* a call of an operation that returns a ValidationResponse
CallDetailed(o, r, input, name, fed) ==
    /\ SetSelf(r.self)
    /\ op' = o
    /\ arg' = input
    /\ name_arg' = name
    /\ result' = r.ret
    /\ prev' = fed
    /\ UNCHANGED threads
\* a call of an operation that returns a str or None and writes no field
CallLite(o, r, input, name, fed) ==
    /\ UNCHANGED <<_message_, _status_, _is_valid_, threads>>
    /\ op' = o
    /\ arg' = input
    /\ name_arg' = name
    /\ result' = r
    /\ prev' = fed

Do_validate_PAN(input, fed) ==
    CallDetailed("validate_PAN", validate_PAN(Self, input), input, <<>>, fed)
Do_validate_PAN_lite(input, fed) ==
    CallLite("validate_PAN_lite", validate_PAN_lite(input), input, <<>>, fed)
Do_validate_PAN_with_name(input, name, fed) ==
    CallDetailed("validate_PAN_with_name", validate_PAN_with_name(Self, input, name),
                 input, name, fed)
Do_validate_PAN_with_name_lite(input, name, fed) ==
    CallLite("validate_PAN_with_name_lite", validate_PAN_with_name_lite(input, name),
             input, name, fed)
Do_validate_National_Insurance_Number(input, fed) ==
    CallLite("validate_National_Insurance_Number",
             validate_National_Insurance_Number(input), input, <<>>, fed)
Do_validate_SSN(input, fed) ==
    CallLite("validate_SSN", validate_SSN(input), input, <<>>, fed)
Do_validate_Aadhaar(input, fed) ==
    CallLite("validate_Aadhaar", validate_Aadhaar(input), input, <<>>, fed)
Do_validate_NPWP(input, fed) ==
    CallLite("validate_NPWP", validate_NPWP(input), input, <<>>, fed)
Do_validate_CPF(input, fed) ==
    CallLite("validate_CPF", validate_CPF(input), input, <<>>, fed)
Do_validate_CNPJ(input, fed) ==
    CallLite("validate_CNPJ", validate_CNPJ(input), input, <<>>, fed)

\* Spec: a fresh instance is given one input; one operation is applied to it, and
\* an accepted output may be fed back once
Init ==
    /\ _message_ = NewInstance._message_
    /\ _status_ = NewInstance._status_
    /\ _is_valid_ = NewInstance._is_valid_
    /\ op = "none"
    /\ arg \in Inputs
    /\ name_arg = <<>>
    /\ result = NoCall
    /\ prev = NoCall
    /\ threads = <<>>

PAN ==
    \/ op = "none" /\ Do_validate_PAN(arg, NoCall)
    \/ CanFeedBack("validate_PAN") /\ Do_validate_PAN(result.message, result)
PAN_lite ==
    \/ op = "none" /\ Do_validate_PAN_lite(arg, NoCall)
    \/ CanFeedBack("validate_PAN_lite") /\ Do_validate_PAN_lite(result.message, result)
PAN_with_name ==
    \/ op = "none" /\ \E name \in Names : Do_validate_PAN_with_name(arg, name, NoCall)
    \/ CanFeedBack("validate_PAN_with_name")
       /\ Do_validate_PAN_with_name(result.message, name_arg, result)
PAN_with_name_lite ==
    \/ op = "none" /\ \E name \in Names : Do_validate_PAN_with_name_lite(arg, name, NoCall)
    \/ CanFeedBack("validate_PAN_with_name_lite")
       /\ Do_validate_PAN_with_name_lite(result.message, name_arg, result)
National_Insurance_Number ==
    \/ op = "none" /\ Do_validate_National_Insurance_Number(arg, NoCall)
    \/ CanFeedBack("validate_National_Insurance_Number")
       /\ Do_validate_National_Insurance_Number(result.message, result)
SSN ==
    \/ op = "none" /\ Do_validate_SSN(arg, NoCall)
    \/ CanFeedBack("validate_SSN") /\ Do_validate_SSN(result.message, result)
Aadhaar ==
    \/ op = "none" /\ Do_validate_Aadhaar(arg, NoCall)
    \/ CanFeedBack("validate_Aadhaar") /\ Do_validate_Aadhaar(result.message, result)
NPWP ==
    \/ op = "none" /\ Do_validate_NPWP(arg, NoCall)
    \/ CanFeedBack("validate_NPWP") /\ Do_validate_NPWP(result.message, result)
CPF ==
    \/ op = "none" /\ Do_validate_CPF(arg, NoCall)
    \/ CanFeedBack("validate_CPF") /\ Do_validate_CPF(result.message, result)
CNPJ ==
    \/ op = "none" /\ Do_validate_CNPJ(arg, NoCall)
    \/ CanFeedBack("validate_CNPJ") /\ Do_validate_CNPJ(result.message, result)

Next ==
    \/ PAN
    \/ PAN_lite
    \/ PAN_with_name
    \/ PAN_with_name_lite
    \/ National_Insurance_Number
    \/ SSN
    \/ Aadhaar
    \/ NPWP
    \/ CPF
    \/ CNPJ

Spec == Init /\ [][Next]_vars

----------------------------------------------------------------------------
(* SpecSeq: one caller makes any number of calls, of any operations and    *)
(* with any inputs, on one instance; prev is the result of the call before.*)

SeqInputs ==
    {<<>>, <<"A","B","C","P">>, <<"A","B","C","P","M","0","0","0","1","N">>, <<"A","H","H","C","M","8","6","3","2","N">>,
     <<"A","B","C","X","M","0","0","0","0","N">>, <<"A","B","C","P","M","X","X","X","X","N">>, <<"A","B","C","P","M","0","0","#","1","N">>,
     <<"6","2","5","-","4","7","-","3","3","1","6">>, <<"3","9","0","5","3","3","4","4","7","0","5">>}
SeqNames == {<<>>, <<"M">>, <<"D"," ","M">>, <<"D"," ","X">>}

InitSeq ==
    /\ _message_ = NewInstance._message_
    /\ _status_ = NewInstance._status_
    /\ _is_valid_ = NewInstance._is_valid_
    /\ op = "none"
    /\ arg = <<>>
    /\ name_arg = <<>>
    /\ result = NoCall
    /\ prev = NoCall
    /\ threads = <<>>

Seq_PAN == \E input \in SeqInputs : Do_validate_PAN(input, result)
Seq_PAN_lite == \E input \in SeqInputs : Do_validate_PAN_lite(input, result)
Seq_PAN_with_name ==
    \E input \in SeqInputs, name \in SeqNames :
        Do_validate_PAN_with_name(input, name, result)
Seq_PAN_with_name_lite ==
    \E input \in SeqInputs, name \in SeqNames :
        Do_validate_PAN_with_name_lite(input, name, result)
Seq_National_Insurance_Number ==
    \E input \in SeqInputs : Do_validate_National_Insurance_Number(input, result)
Seq_SSN == \E input \in SeqInputs : Do_validate_SSN(input, result)
Seq_Aadhaar == \E input \in SeqInputs : Do_validate_Aadhaar(input, result)
Seq_NPWP == \E input \in SeqInputs : Do_validate_NPWP(input, result)
Seq_CPF == \E input \in SeqInputs : Do_validate_CPF(input, result)
Seq_CNPJ == \E input \in SeqInputs : Do_validate_CNPJ(input, result)

NextSeq ==
    \/ Seq_PAN
    \/ Seq_PAN_lite
    \/ Seq_PAN_with_name
    \/ Seq_PAN_with_name_lite
    \/ Seq_National_Insurance_Number
    \/ Seq_SSN
    \/ Seq_Aadhaar
    \/ Seq_NPWP
    \/ Seq_CPF
    \/ Seq_CNPJ

SpecSeq == InitSeq /\ [][NextSeq]_vars

----------------------------------------------------------------------------
(* SpecConc: several callers share one instance without synchronization.   *)
(* Each caller makes one call of validate_PAN or validate_PAN_with_name;    *)
(* every store to and load from a field of the instance is a step of its    *)
(* own, and the steps of the callers interleave in every order.             *)

NThreads == 2
Callers == 1..NThreads
ConcInputs == {<<>>,
               <<"A","B","C","P","M","0","0","0","1","N">>,
               <<"A","B","C","X","M","0","0","0","0","N">>,
               <<"A","H","H","C","M","8","6","3","2","N">>}
ConcNames == {<<"M">>, <<"D"," ","M">>}

\* a caller before its first step
Caller(o, pan_number, name) ==
    [pc |-> "call", op |-> o, pan_number |-> pan_number, name |-> name,
     pending |-> NewInstance, then |-> "none",
     message |-> <<>>, status |-> 0, ret |-> NoCall]

InitConc ==
    /\ _message_ = NewInstance._message_
    /\ _status_ = NewInstance._status_
    /\ _is_valid_ = NewInstance._is_valid_
    /\ op = "none"
    /\ arg = <<>>
    /\ name_arg = <<>>
    /\ result = NoCall
    /\ prev = NoCall
    /\ threads \in [Callers ->
          {Caller("validate_PAN", p, <<>>) : p \in ConcInputs}
          \cup {Caller("validate_PAN_with_name", p, n) : p \in ConcInputs, n \in ConcNames}]

Step(t, new) ==
    /\ threads' = [threads EXCEPT ![t] = new]
    /\ UNCHANGED <<op, arg, name_arg, result, prev>>

\* validate_PAN, lines 56-59: normalize, and take a branch of lines 59-86
Enter(t) ==
    LET c == threads[t]
        b == validate_PAN_branch(Self, normalize_PAN(c.pan_number))
    IN  /\ \/ c.pc = "call" /\ c.op = "validate_PAN"
           \/ c.pc = "PAN_enter"
        /\ UNCHANGED <<_message_, _status_, _is_valid_>>
        /\ IF b.raised
           THEN Step(t, [c EXCEPT !.pc = "done", !.ret = Raise("ValueError")])
           ELSE Step(t, [c EXCEPT !.pc = "write_message", !.pending = b.self,
                                  !.then = "read_message"])

\* validate_PAN_with_name, lines 115-116: self._is_valid_ = True
Reset(t) ==
    LET c == threads[t]
    IN  /\ c.pc = "call" /\ c.op = "validate_PAN_with_name"
        /\ _is_valid_' = TRUE
        /\ UNCHANGED <<_message_, _status_>>
        /\ Step(t, [c EXCEPT !.pc = "check",
                             !.pan_number = normalize_PAN(c.pan_number)])

\* validate_PAN_with_name, lines 117-133: the conditions, which read no field
Check(t) ==
    LET c == threads[t]
        n == name_check(c.pan_number, c.name)
    IN  /\ c.pc = "check"
        /\ UNCHANGED <<_message_, _status_, _is_valid_>>
        /\ CASE n.kind = "raise" ->
                  Step(t, [c EXCEPT !.pc = "done", !.ret = Raise("IndexError")])
             [] n.kind = "fail" ->
                  Step(t, [c EXCEPT !.pc = "write_message", !.then = "test",
                                    !.pending = Fields(n.message, n.status, FALSE)])
             [] n.kind = "pass" -> Step(t, [c EXCEPT !.pc = "test"])

\* self._message_ = ..., self._status_ = ..., self._is_valid_ = ... of a branch
WriteMessage(t) ==
    LET c == threads[t]
    IN  /\ c.pc = "write_message"
        /\ _message_' = c.pending._message_
        /\ UNCHANGED <<_status_, _is_valid_>>
        /\ Step(t, [c EXCEPT !.pc = "write_status"])
WriteStatus(t) ==
    LET c == threads[t]
    IN  /\ c.pc = "write_status"
        /\ _status_' = c.pending._status_
        /\ UNCHANGED <<_message_, _is_valid_>>
        /\ Step(t, [c EXCEPT !.pc = "write_valid"])
WriteValid(t) ==
    LET c == threads[t]
    IN  /\ c.pc = "write_valid"
        /\ _is_valid_' = c.pending._is_valid_
        /\ UNCHANGED <<_message_, _status_>>
        /\ Step(t, [c EXCEPT !.pc = c.then])

\* validate_PAN_with_name, line 135: if self._is_valid_ is True
Test(t) ==
    LET c == threads[t]
    IN  /\ c.pc = "test"
        /\ UNCHANGED <<_message_, _status_, _is_valid_>>
        /\ Step(t, [c EXCEPT !.pc = IF _is_valid_ = TRUE THEN "PAN_enter"
                                    ELSE "read_message"])

\* return ValidationResponse(self._message_, self._status_, self._is_valid_):
\* the three fields are loaded one after the other
ReadMessage(t) ==
    LET c == threads[t]
    IN  /\ c.pc = "read_message"
        /\ UNCHANGED <<_message_, _status_, _is_valid_>>
        /\ Step(t, [c EXCEPT !.pc = "read_status", !.message = _message_])
ReadStatus(t) ==
    LET c == threads[t]
    IN  /\ c.pc = "read_status"
        /\ UNCHANGED <<_message_, _status_, _is_valid_>>
        /\ Step(t, [c EXCEPT !.pc = "return", !.status = _status_])
Return(t) ==
    LET c == threads[t]
    IN  /\ c.pc = "return"
        /\ UNCHANGED <<_message_, _status_, _is_valid_>>
        /\ Step(t, [c EXCEPT !.pc = "done",
                             !.ret = ValidationResponse(c.message, c.status, _is_valid_)])

NextConc ==
    \E t \in Callers :
        \/ Enter(t)
        \/ Reset(t)
        \/ Check(t)
        \/ WriteMessage(t)
        \/ WriteStatus(t)
        \/ WriteValid(t)
        \/ Test(t)
        \/ ReadMessage(t)
        \/ ReadStatus(t)
        \/ Return(t)

SpecConc == InitConc /\ [][NextConc]_vars

----------------------------------------------------------------------------
(* Properties.                                                             *)

\* a result that reports failure: a negative status, or None
Failure(r) ==
    \/ r.kind = "None"
    \/ r.kind = "ValidationResponse" /\ r.status < 0 /\ ~r.is_valid
\* the normalized form a validator other than the PAN ones works on
Normalized(s) == strip(translate(s))

\* five letters, four digits, one letter, and nothing else
FiveFourOne(n) ==
    /\ Len(n) = 10
    /\ \A i \in {1, 2, 3, 4, 5, 10} : n[i] \in Upper_
    /\ \A i \in 6..9 : n[i] \in Digit_
\* the number the digit block n[6..9] writes
DigitBlock(n) ==
    1000 * digit_value(n[6]) + 100 * digit_value(n[7]) + 10 * digit_value(n[8])
    + digit_value(n[9])
\* letters and digits in the sense of str.isalnum()
Alphanumeric == Upper_ \cup Lower_ \cup Digit_ \cup {SUPERSCRIPT_TWO}
EntityCodes == {"A", "B", "C", "F", "G", "H", "L", "J", "P", "T"}
\* the status of the first failing check of a normalized PAN, 0 when none fails
FirstFailingCheck(n) ==
    IF Len(n) # 10 THEN -1
    ELSE IF \E i \in DOMAIN n : n[i] \notin Alphanumeric THEN -5
    ELSE IF ~FiveFourOne(n) THEN -4
    ELSE IF DigitBlock(n) < 1 \/ DigitBlock(n) > 9999 THEN -3
    ELSE IF n[4] \notin EntityCodes THEN -2
    ELSE 0

\* C1: validate_PAN returns the status of the first failing check in the order
\* length (-1), alphanumeric (-5), pattern (-4), digit block (-3), fourth
\* character (-2); with no failing check the status is 0 and the message is the
\* normalized PAN; is_valid is true exactly when the status is 0.
C1_FirstFailingCheck ==
    op = "validate_PAN" =>
        /\ result.kind = "ValidationResponse"
        /\ result.status = FirstFailingCheck(normalize_PAN(arg))
        /\ (result.status = 0 => result.message = normalize_PAN(arg))
        /\ (result.is_valid <=> result.status = 0)
\* a PAN of the right pattern whose digit block is 0000 and whose fourth
\* character is no entity code was reported as -3
C1_DigitBlockBeforeFourthChar ==
    /\ op = "validate_PAN"
    /\ FiveFourOne(normalize_PAN(arg))
    /\ DigitBlock(normalize_PAN(arg)) = 0
    /\ normalize_PAN(arg)[4] \notin EntityCodes
    /\ result.status = -3

\* C2: validate_PAN_lite returns the normalized PAN exactly when validate_PAN
\* gives status 0 for the same input, and None for every other input; it never
\* raises.
C2_LiteAgreesWithPAN ==
    op = "validate_PAN_lite" =>
        result = IF FirstFailingCheck(normalize_PAN(arg)) = 0
                 THEN Str(normalize_PAN(arg))
                 ELSE None

\* the status the name check gives a normalized PAN of five characters or more
\* and a name, 0 when the name fits
NameCheckStatus(n, name) ==
    LET tokens == split_space(strip(name))
    IN  IF strip(name) = <<>> THEN -1
        ELSE IF n[4] = "P"
        THEN IF Len(tokens) < 2 THEN -2
             ELSE IF upper_char(tokens[Len(tokens)][1]) # n[5] THEN -3
             ELSE 0
        ELSE IF upper_char(tokens[1][1]) # n[5] THEN -4
        ELSE 0

\* C3: for a PAN of at least five normalized characters, validate_PAN_with_name
\* gives -1 for a blank name; for fourth character 'P', -2 for fewer than two
\* tokens and -3 for a last token whose initial is not the fifth character; for
\* another fourth character, -4 for a first token whose initial is not the fifth
\* character; otherwise what validate_PAN returns for that PAN.
C3_NameCheckOrder ==
    (op = "validate_PAN_with_name" /\ Len(normalize_PAN(arg)) >= 5) =>
        LET e == NameCheckStatus(normalize_PAN(arg), name_arg)
        IN  /\ result.kind = "ValidationResponse"
            /\ IF e < 0
               THEN result.status = e
               ELSE /\ result.status = FirstFailingCheck(normalize_PAN(arg))
                    /\ result = validate_PAN(NewInstance, arg).ret
\* an individual's PAN that validate_PAN rejects, with a one-token name, got -2
C3_SingleTokenInvalidPAN ==
    /\ op = "validate_PAN_with_name"
    /\ Len(normalize_PAN(arg)) >= 5
    /\ normalize_PAN(arg)[4] = "P"
    /\ FirstFailingCheck(normalize_PAN(arg)) # 0
    /\ Len(split_space(strip(name_arg))) = 1
    /\ strip(name_arg) # <<>>
    /\ result.status = -2

\* C4: validate_PAN_with_name_lite returns the normalized PAN exactly when
\* validate_PAN_with_name gives status 0 for the same PAN and name, and None
\* otherwise.
C4_LiteSameCrossCheck ==
    op = "validate_PAN_with_name_lite" =>
        LET full == validate_PAN_with_name(NewInstance, arg, name_arg).ret
        IN  result = IF full.kind = "ValidationResponse" /\ full.status = 0
                     THEN Str(normalize_PAN(arg))
                     ELSE None

\* C5: an identifier that is empty or made of separator characters only makes
\* every operation report failure, with any name, and never raise.
C5_SeparatorOnlyFails ==
    (op # "none" /\ \A i \in DOMAIN arg : arg[i] \in SEPARATORS) => Failure(result)

\* the length an operation requires of the normalized identifier
RequiredLength(o) ==
    CASE o = "validate_PAN" -> 10
      [] o = "validate_PAN_lite" -> 10
      [] o = "validate_SSN" -> 9
      [] o = "validate_Aadhaar" -> 12
      [] o = "validate_NPWP" -> 15
      [] o = "validate_CPF" -> 11
      [] o = "validate_CNPJ" -> 14

\* C6: an identifier of the wrong normalized length fails: validate_PAN gives
\* -1, the operations returning a str give None; for a National Insurance number
\* the wrong lengths are those below 8.
C6_WrongLengthFails ==
    /\ (op = "validate_PAN" /\ Len(normalize_PAN(arg)) # 10) =>
           (result.kind = "ValidationResponse" /\ result.status = -1)
    /\ (op \in {"validate_PAN_lite", "validate_SSN", "validate_Aadhaar",
                "validate_NPWP", "validate_CPF", "validate_CNPJ"}
        /\ Len(Normalized(arg)) # RequiredLength(op)) => result = None
    /\ (op = "validate_National_Insurance_Number" /\ Len(Normalized(arg)) < 8) =>
           result = None

\* what a caller's call returns when no other call runs
Alone(c) ==
    IF c.op = "validate_PAN"
    THEN validate_PAN(NewInstance, c.pan_number).ret
    ELSE validate_PAN_with_name(NewInstance, c.pan_number, c.name).ret

\* C7: under every interleaving each concurrent call on a shared instance
\* returns what it would return run alone on its own input.
C7_CallsIsolated ==
    \A t \in DOMAIN threads :
        threads[t].pc = "done" => threads[t].ret = Alone(threads[t])

\* C8: in sequential use, validate_PAN and validate_PAN_with_name return after
\* any earlier calls what they return on a fresh instance.
C8_ResultDependsOnInputOnly ==
    /\ op = "validate_PAN" => result = validate_PAN(NewInstance, arg).ret
    /\ op = "validate_PAN_with_name" =>
           result = validate_PAN_with_name(NewInstance, arg, name_arg).ret
\* validate_PAN_with_name accepted a PAN right after a call that failed and left
\* its message, status and False in the fields
C8_ValidAfterFailedCall ==
    /\ op = "validate_PAN_with_name"
    /\ prev.kind = "ValidationResponse"
    /\ ~prev.is_valid
    /\ result.kind = "ValidationResponse"
    /\ result.is_valid
    /\ result.message # prev.message

\* C9: the formatted identifier an operation returns, fed back into the same
\* operation (with the same name), is accepted and returned unchanged.
C9_RoundTrip ==
    (op # "none" /\ prev # NoCall) => result = prev

\* sum of (w - i) * digit[i] for i in 0..8, the digits counted from 0
RECURSIVE CPFSum(_, _, _)
CPFSum(n, w, i) ==
    IF i > 8 THEN 0 ELSE (w - i) * digit_value(n[i + 1]) + CPFSum(n, w, i + 1)
CPF_d1(n) == ((11 - CPFSum(n, 10, 0)) % 11) % 10
CPF_d2(n) == ((11 - (CPFSum(n, 11, 0) + 2 * CPF_d1(n))) % 11) % 10
\* eleven digits, not all zero, ending in the two check digits of the first nine
CPFValid(n) ==
    /\ Len(n) = 11
    /\ \A i \in DOMAIN n : n[i] \in Digit_
    /\ \E i \in DOMAIN n : n[i] # "0"
    /\ n[10] = DIGITS[CPF_d1(n) + 1]
    /\ n[11] = DIGITS[CPF_d2(n) + 1]
\* XXX.XXX.XXX-XX
CPFGrouped(n) ==
    <<n[1], n[2], n[3], ".", n[4], n[5], n[6], ".", n[7], n[8], n[9], "-", n[10], n[11]>>

\* C10: validate_CPF returns the digits grouped XXX.XXX.XXX-XX exactly when the
\* normalized input is eleven digits, greater than zero, whose last two digits
\* are the check digits d1 and d2 of the first nine; d1 and d2 are single
\* digits; every other input gives None; "39053344705" gives "390.533.447-05".
C10_CPFCheckDigits ==
    op = "validate_CPF" =>
        LET n == Normalized(arg)
        IN  /\ result = IF CPFValid(n) THEN Str(CPFGrouped(n)) ELSE None
            /\ (Len(n) = 11 /\ \A i \in DOMAIN n : n[i] \in Digit_) =>
                   /\ CPF_d1(n) \in 0..9
                   /\ CPF_d2(n) \in 0..9
                   /\ cpf_calc_check_digits(n) =
                          <<DIGITS[CPF_d1(n) + 1], DIGITS[CPF_d2(n) + 1]>>
            /\ n = <<"3","9","0","5","3","3","4","4","7","0","5">> =>
                   result = Str(<<"3","9","0",".","5","3","3",".","4","4","7","-","0","5">>)

====
